---- MODULE Spec2Model ----
(***************************************************************************)
(* Model of the telecom testing-number analyzer: telanlys.py (validation,  *)
(* analyze_messages, get_identifier_type, main) and web_app.py (the        *)
(* Analyze button handler).                                                *)
(*                                                                         *)
(* Strings are sequences of one-character strings, so that the string      *)
(* operations of the code (re.findall, re.sub, strip, lower, sorted, join) *)
(* are computed character by character.                                    *)
(***************************************************************************)
EXTENDS Integers, Sequences, FiniteSets, TLC

VARIABLES
    pc,         \* position of the running call or handler
    messages,   \* analyze_messages: the argument
    result,     \* analyze_messages: the returned value
    ids,        \* get_identifier_type: the argument
    label,      \* get_identifier_type: the returned string
    base,       \* get_identifier_type: what the first call returned
    run,        \* number of runs started (script runs or reruns)
    entry,      \* "cli": main() from the command line; "web": the handler
    traffic_file,   \* the traffic spreadsheet of this run
    tags_file,      \* the known-numbers spreadsheet of this run
    bound,      \* web_app.py: TRAFFIC_PATH and TAGS_PATH are assigned
    candidates, \* main: the candidates list, once computed
    todo,       \* main: the candidates the loop has yet to take
    detailed_results,   \* main: the list of line 88, once created
    summary_df, \* main: the summary frame, once computed
    exc,        \* the exception in flight or left uncaught
    stdout,     \* what main printed in this run
    ui,         \* what the page shows in this run
    download,   \* the data behind the download button of this run
    saved,      \* main wrote the output file in this run
    fs          \* the working directory: output file and temporary files

analyzeVars == <<messages, result>>
formatVars == <<ids, label, base>>
localVars == <<candidates, todo, detailed_results, summary_df>>
appVars == <<run, entry, traffic_file, tags_file, bound, localVars, exc,
             stdout, ui, download, saved, fs>>
vars == <<pc, analyzeVars, formatVars, appVars>>

\* Python's None where a dict may stand.
None == [none |-> TRUE]

(***************************************************************************)
(* Bounds of the checked inputs.                                           *)
(***************************************************************************)
MaxMsgLen == 5      \* longest message of a one-message list
MaxShortLen == 2    \* longest message of a list of several messages
MaxMsgs == 2        \* longest message list
MaxIds == 3         \* longest identifier list
MaxRows == 3        \* most rows of a traffic table given to main
MaxRuns == 2        \* most runs in one working directory

(***************************************************************************)
(* Characters and strings.                                                 *)
(***************************************************************************)
Digits == {"0", "1", "2", "3", "4", "5", "6", "7", "8", "9"}
Letters == {"a", "b", "c", "d", "e", "f", "g", "h", "i", "j", "k", "l", "m",
            "n", "o", "p", "q", "r", "s", "t", "u", "v", "w", "x", "y", "z",
            "A", "B", "D", "I"}
Whitespace == {" "}

IsDigit(c) == c \in Digits
IsSpace(c) == c \in Whitespace

Range(s) == {s[i] : i \in 1..Len(s)}

\* All strings over alphabet a of length at most n.
StringsUpTo(a, n) == UNION {[1..k -> a] : k \in 0..n}

\* s[i..j] as Python's s[i-1:j].
Slice(s, i, j) == SubSeq(s, i, j)

(***************************************************************************)
(* analyze_messages, telanlys.py lines 31-46.                              *)
(***************************************************************************)
\* re.findall(r'\d+', msg): the maximal digit runs, left to right.
RECURSIVE ScanRuns(_, _, _, _)
ScanRuns(msg, i, cur, acc) ==
    IF i > Len(msg)
    THEN IF cur = <<>> THEN acc ELSE Append(acc, cur)
    ELSE IF IsDigit(msg[i])
         THEN ScanRuns(msg, i + 1, Append(cur, msg[i]), acc)
         ELSE ScanRuns(msg, i + 1, <<>>,
                       IF cur = <<>> THEN acc ELSE Append(acc, cur))

findall_digits(msg) == ScanRuns(msg, 1, <<>>, <<>>)

\* A bug of max(): a later run of equal length replaces the kept one.
KeepsMutant(best, x) == Len(x) >= Len(best)

\* max(numbers, key=len) keeps the first of the items with the greatest key:
\* a later item replaces the kept one only when its key is strictly greater.
Keeps(best, x) == Len(x) > Len(best)

RECURSIVE MaxFrom(_, _, _)
MaxFrom(numbers, i, best) ==
    IF i > Len(numbers) THEN best
    ELSE MaxFrom(numbers, i + 1,
                 IF Keeps(best, numbers[i]) THEN numbers[i] ELSE best)

max_by_len(numbers) == MaxFrom(numbers, 2, numbers[1])

\* re.escape(identifier) matches identifier literally at position i of s.
MatchAt(pat, s, i) ==
    /\ i + Len(pat) - 1 <= Len(s)
    /\ Slice(s, i, i + Len(pat) - 1) = pat

\* A bug of the substitution: re.sub(..., count=1), only the first match.
RECURSIVE SubFirstFrom(_, _, _, _)
SubFirstFrom(pat, repl, s, i) ==
    IF i > Len(s) THEN <<>>
    ELSE IF MatchAt(pat, s, i)
         THEN repl \o Slice(s, i + Len(pat), Len(s))
         ELSE <<s[i]>> \o SubFirstFrom(pat, repl, s, i + 1)

re_sub_mutant(pat, repl, s) == SubFirstFrom(pat, repl, s, 1)

\* re.sub(re.escape(identifier), '<ID>', msg): every non-overlapping match,
\* scanning from the left (no count argument is given).
RECURSIVE SubFrom(_, _, _, _)
SubFrom(pat, repl, s, i) ==
    IF i > Len(s) THEN <<>>
    ELSE IF MatchAt(pat, s, i)
         THEN repl \o SubFrom(pat, repl, s, i + Len(pat))
         ELSE <<s[i]>> \o SubFrom(pat, repl, s, i + 1)

re_sub(pat, repl, s) == SubFrom(pat, repl, s, 1)

\* str.strip(): leading and trailing whitespace removed.
RECURSIVE lstrip(_)
lstrip(s) == IF s # <<>> /\ IsSpace(s[1]) THEN lstrip(Tail(s)) ELSE s

RECURSIVE rstrip(_)
rstrip(s) ==
    IF s # <<>> /\ IsSpace(s[Len(s)]) THEN rstrip(Slice(s, 1, Len(s) - 1)) ELSE s

strip(s) == rstrip(lstrip(s))

Placeholder == <<"<", "I", "D", ">">>

\* A bug of the loop: a message without digits is skipped, not fatal.
RECURSIVE AnalyzeLoopMutant(_, _, _, _)
AnalyzeLoopMutant(msgs, i, patterns, identifiers) ==
    IF i > Len(msgs)
    THEN IF Cardinality(Range(patterns)) = 1
         THEN [pattern |-> patterns[1], identifiers |-> identifiers]
         ELSE None
    ELSE LET numbers == findall_digits(msgs[i]) IN
         IF numbers = <<>>
         THEN AnalyzeLoopMutant(msgs, i + 1, patterns, identifiers)
         ELSE LET identifier == max_by_len(numbers)
                  pattern == re_sub(identifier, Placeholder, msgs[i])
              IN AnalyzeLoopMutant(msgs, i + 1, Append(patterns, strip(pattern)),
                                   Append(identifiers, identifier))

\* The loop of lines 36-44 from message i on, and the return of line 46.
RECURSIVE AnalyzeLoop(_, _, _, _)
AnalyzeLoop(msgs, i, patterns, identifiers) ==
    IF i > Len(msgs)
    THEN IF Cardinality(Range(patterns)) = 1
         THEN [pattern |-> patterns[1], identifiers |-> identifiers]
         ELSE None
    ELSE LET numbers == findall_digits(msgs[i]) IN
         IF numbers = <<>>
         THEN None
         ELSE LET identifier == max_by_len(numbers)
                  pattern == re_sub(identifier, Placeholder, msgs[i])
              IN AnalyzeLoop(msgs, i + 1, Append(patterns, strip(pattern)),
                             Append(identifiers, identifier))

analyze_messages(msgs) == AnalyzeLoop(msgs, 1, <<>>, <<>>)

(***************************************************************************)
(* Specification of analyze_messages applied to bounded inputs.            *)
(***************************************************************************)
MsgAlphabet == {"1", "2", "a", " "}

\* The lists of several messages are drawn over two digits and a letter, or
\* over a digit, a letter and a blank.
ShortAlphabets == {{"1", "2", "a"}, {"1", "a", " "}}

\* One long message, or up to MaxMsgs short ones.
MessageLists ==
    {<<m>> : m \in StringsUpTo(MsgAlphabet, MaxMsgLen)}
    \cup UNION {[1..k -> StringsUpTo(a, MaxShortLen)] :
                    k \in 0..MaxMsgs, a \in ShortAlphabets}

\* Python's None is the empty sequence and a value v is <<v>>, where the
\* value is a list, a frame or an exception.
Nothing == <<>>
Some(v) == <<v>>

\* A spreadsheet is unreadable (pd.read_excel raises) or a frame with a set
\* of columns and rows that map each column to a string.
Unreadable == [readable |-> FALSE]

Frame(cols, rows) == [readable |-> TRUE, columns |-> cols, rows |-> rows]

\* The working directory before the first run.
EmptyDir == [output |-> Nothing, temp_traffic |-> FALSE, temp_tags |-> FALSE]

\* No run has started.
AppIdle ==
    /\ run = 0
    /\ entry = "none"
    /\ traffic_file = Unreadable
    /\ tags_file = Unreadable
    /\ bound = FALSE
    /\ candidates = Nothing
    /\ todo = <<>>
    /\ detailed_results = Nothing
    /\ summary_df = Nothing
    /\ exc = Nothing
    /\ stdout = <<>>
    /\ ui = <<>>
    /\ download = Nothing
    /\ saved = FALSE
    /\ fs = EmptyDir

AnalyzeIdle == messages = <<>> /\ result = None

\* No string returned yet.
NoLabel == <<"unset">>

FormatIdle == ids = <<>> /\ label = NoLabel /\ base = NoLabel

InitAnalyze ==
    /\ pc = "call"
    /\ messages \in MessageLists
    /\ result = None
    /\ FormatIdle
    /\ AppIdle

CallAnalyze ==
    /\ pc = "call"
    /\ result' = analyze_messages(messages)
    /\ pc' = "returned"
    /\ UNCHANGED <<messages, formatVars, appVars>>

NextAnalyze == CallAnalyze

SpecAnalyze == InitAnalyze /\ [][NextAnalyze]_vars

(***************************************************************************)
(* What the claims about analyze_messages speak of, stated over positions  *)
(* of the message rather than by scanning it.                              *)
(***************************************************************************)
HasDigit(msg) == \E i \in 1..Len(msg) : IsDigit(msg[i])

\* <<p, q>> is a maximal run of consecutive digits of msg.
IsMaximalRun(msg, p, q) ==
    /\ 1 <= p /\ p <= q /\ q <= Len(msg)
    /\ \A i \in p..q : IsDigit(msg[i])
    /\ (p = 1 \/ ~IsDigit(msg[p - 1]))
    /\ (q = Len(msg) \/ ~IsDigit(msg[q + 1]))

MaximalRuns(msg) ==
    {r \in (1..Len(msg)) \X (1..Len(msg)) : IsMaximalRun(msg, r[1], r[2])}

RunLen(r) == r[2] - r[1] + 1

\* The leftmost of the maximal runs of the greatest length.
LeftmostLongestRun(msg) ==
    CHOOSE r \in MaximalRuns(msg) :
        \A o \in MaximalRuns(msg) :
            \/ RunLen(o) < RunLen(r)
            \/ (RunLen(o) = RunLen(r) /\ r[1] <= o[1])

\* The start of the leftmost textual occurrence of id in msg.
FirstOccurrence(id, msg) ==
    CHOOSE p \in 1..Len(msg) :
        /\ MatchAt(id, msg, p)
        /\ \A o \in 1..(p - 1) : ~MatchAt(id, msg, o)

\* msg with positions p..q replaced by the placeholder.
ReplaceAt(msg, p, q) ==
    Slice(msg, 1, p - 1) \o Placeholder \o Slice(msg, q + 1, Len(msg))

\* s without its leading and trailing whitespace.
Trimmed(s) ==
    LET solid == {i \in 1..Len(s) : ~IsSpace(s[i])} IN
    IF solid = {} THEN <<>>
    ELSE Slice(s, CHOOSE a \in solid : \A o \in solid : a <= o,
                  CHOOSE b \in solid : \A o \in solid : o <= b)

RECURSIVE ConcatPieces(_, _)
ConcatPieces(piece, n) ==
    IF n = 0 THEN <<>> ELSE ConcatPieces(piece, n - 1) \o piece[n]

\* The maximal runs of msg whose digits are id.
RunsEqualTo(msg, id) ==
    {r \in MaximalRuns(msg) : Slice(msg, r[1], r[2]) = id}

\* msg with every maximal run whose digits are id replaced by the placeholder.
AllRunsReplaced(msg, id) ==
    LET hit == RunsEqualTo(msg, id)
        piece == [i \in 1..Len(msg) |->
                    IF \E r \in hit : r[1] = i THEN Placeholder
                    ELSE IF \E r \in hit : r[1] < i /\ i <= r[2] THEN <<>>
                    ELSE <<msg[i]>>]
    IN ConcatPieces(piece, Len(msg))

Returned == pc = "returned" /\ result # None

\* C1 as stated: the template is the message with only the first occurrence of
\* the identifier replaced by <ID>, then stripped; later occurrences stay.
C1_FirstOccurrenceOnly ==
    Returned =>
        \A i \in 1..Len(messages) :
            LET id == result.identifiers[i]
                p == FirstOccurrence(id, messages[i])
            IN result.pattern = Trimmed(ReplaceAt(messages[i], p, p + Len(id) - 1))

\* C1 amended: the template is the message with every maximal digit run equal
\* to the selected identifier replaced by <ID>, then stripped of leading and
\* trailing whitespace.
C1_EveryOccurrenceReplaced ==
    Returned =>
        \A i \in 1..Len(messages) :
            result.pattern =
                Trimmed(AllRunsReplaced(messages[i], result.identifiers[i]))

\* C1 witness: a classified message holding its identifier in two runs, next
\* to whitespace that the strip removes.
C1_Witness ==
    /\ Returned
    /\ \E i \in 1..Len(messages) :
        /\ Cardinality(RunsEqualTo(messages[i], result.identifiers[i])) >= 2
        /\ IsSpace(messages[i][1])

\* C2: the identifier of every classified message is the leftmost of its
\* maximal digit runs of the greatest length.
C2_LeftmostLongest ==
    Returned =>
        \A i \in 1..Len(messages) :
            LET r == LeftmostLongestRun(messages[i]) IN
            result.identifiers[i] = Slice(messages[i], r[1], r[2])

\* C2 witness: a classified message with two different runs of the greatest
\* length.
C2_Witness ==
    /\ Returned
    /\ \E i \in 1..Len(messages) :
        LET runs == MaximalRuns(messages[i])
            best == LeftmostLongestRun(messages[i])
        IN \E o \in runs :
                /\ o # best
                /\ RunLen(o) = RunLen(best)
                /\ Slice(messages[i], o[1], o[2]) # Slice(messages[i], best[1], best[2])

\* The template and identifier the claims ascribe to one message.
IdentifierOf(msg) ==
    LET r == LeftmostLongestRun(msg) IN Slice(msg, r[1], r[2])

TemplateOf(msg) == Trimmed(AllRunsReplaced(msg, IdentifierOf(msg)))

\* C3: None exactly for an empty list, a message without digits or templates
\* that differ; otherwise the shared template and one identifier per message,
\* in order.
C3_AllOrNothing ==
    pc = "returned" =>
        LET fails ==
                \/ messages = <<>>
                \/ \E i \in 1..Len(messages) : ~HasDigit(messages[i])
                \/ \E i, j \in 1..Len(messages) :
                        TemplateOf(messages[i]) # TemplateOf(messages[j])
        IN /\ (result = None) <=> fails
           /\ result # None =>
                /\ Len(result.identifiers) = Len(messages)
                /\ \A i \in 1..Len(messages) :
                    /\ result.identifiers[i] = IdentifierOf(messages[i])
                    /\ result.pattern = TemplateOf(messages[i])

\* C3 witness: several messages with different identifiers share a template.
C3_Witness ==
    /\ Returned
    /\ Len(messages) >= 2
    /\ result.identifiers[1] # result.identifiers[2]
    /\ Len(result.identifiers) = Len(messages)

\* C9: the leftmost textual occurrence of the identifier starts where the
\* selected run starts, so replacing the first occurrence by value and
\* replacing at the position of the selected run give the same template.
C9_ValueEqualsPosition ==
    Returned =>
        \A i \in 1..Len(messages) :
            LET msg == messages[i]
                id == result.identifiers[i]
                p == FirstOccurrence(id, msg)
                r == LeftmostLongestRun(msg)
            IN /\ p = r[1]
               /\ Trimmed(ReplaceAt(msg, p, p + Len(id) - 1))
                    = Trimmed(ReplaceAt(msg, r[1], r[2]))

\* C9 witness: the selected run is not the first run, and an earlier run
\* holds digits that also occur in the identifier.
C9_Witness ==
    /\ Returned
    /\ \E i \in 1..Len(messages) :
        LET r == LeftmostLongestRun(messages[i]) IN
        \E o \in MaximalRuns(messages[i]) :
            /\ o[2] < r[1]
            /\ \E k \in r[1]..r[2] : messages[i][k] = messages[i][o[1]]

(***************************************************************************)
(* get_identifier_type, telanlys.py lines 48-58.                           *)
(***************************************************************************)
\* The characters the model uses, in code point order (Python compares
\* strings by code point).
CodePointOrder ==
    <<" ", "-", "0", "1", "2", "3", "4", "5", "6", "7", "8", "9", "<", ">",
      "A", "B", "D", "I",
      "a", "b", "c", "d", "e", "f", "g", "h", "i", "j", "k", "l", "m",
      "n", "o", "p", "q", "r", "s", "t", "u", "v", "w", "x", "y", "z", "|">>

Ord(c) == CHOOSE k \in 1..Len(CodePointOrder) : CodePointOrder[k] = c

\* a < b for Python strings.
StrLess(a, b) ==
    \E k \in 1..(Len(b)) :
        /\ \A j \in 1..(k - 1) : j <= Len(a) /\ a[j] = b[j]
        /\ (k > Len(a) \/ Ord(a[k]) < Ord(b[k]))

\* str.isdigit() and str.isalnum(): false for the empty string.
isdigit(s) == s # <<>> /\ \A i \in 1..Len(s) : s[i] \in Digits
isalnum(s) == s # <<>> /\ \A i \in 1..Len(s) : s[i] \in Digits \cup Letters

\* str(n) of an f-string, n >= 0.
RECURSIVE Decimal(_)
Decimal(n) ==
    LET last == <<CodePointOrder[(n % 10) + 3]>> IN
    IF n < 10 THEN last ELSE Decimal(n \div 10) \o last

DigitNumeric == <<"-", "d", "i", "g", "i", "t", " ", "n", "u", "m", "e", "r", "i", "c">>
DigitAlphanumeric ==
    <<"-", "d", "i", "g", "i", "t", " ",
      "a", "l", "p", "h", "a", "n", "u", "m", "e", "r", "i", "c">>
MixedFormats == <<"m", "i", "x", "e", "d", " ", "f", "o", "r", "m", "a", "t", "s">>
Separator == <<" ", "|", " ">>

\* The branch of lines 52-57 for one identifier.
FormatOf(id) ==
    IF isdigit(id) THEN Decimal(Len(id)) \o DigitNumeric
    ELSE IF isalnum(id) THEN Decimal(Len(id)) \o DigitAlphanumeric
    ELSE MixedFormats

\* The loop of lines 51-57: formats.add(...) for each identifier.
RECURSIVE FormatsLoop(_, _, _)
FormatsLoop(identifiers, i, formats) ==
    IF i > Len(identifiers) THEN formats
    ELSE FormatsLoop(identifiers, i + 1, formats \cup {FormatOf(identifiers[i])})

\* sorted(formats): ascending by string comparison.
RECURSIVE sorted(_)
sorted(S) ==
    IF S = {} THEN <<>>
    ELSE LET least == CHOOSE x \in S : \A y \in S \ {x} : StrLess(x, y)
         IN <<least>> \o sorted(S \ {least})

\* sep.join(items).
RECURSIVE join(_, _)
join(sep, items) ==
    IF items = <<>> THEN <<>>
    ELSE IF Len(items) = 1 THEN items[1]
    ELSE items[1] \o sep \o join(sep, Tail(items))

\* A bug of get_identifier_type: the labels are joined in the order they were
\* first met, without sorted().
RECURSIVE FirstMetLoop(_, _, _)
FirstMetLoop(identifiers, i, met) ==
    IF i > Len(identifiers) THEN met
    ELSE LET f == FormatOf(identifiers[i]) IN
         FirstMetLoop(identifiers, i + 1,
                      IF f \in Range(met) THEN met ELSE Append(met, f))

get_identifier_type_unsorted(identifiers) ==
    join(Separator, FirstMetLoop(identifiers, 1, <<>>))

get_identifier_type(identifiers) ==
    join(Separator, sorted(FormatsLoop(identifiers, 1, {})))

(***************************************************************************)
(* Specification of get_identifier_type: it is called on a list, and the   *)
(* list is then permuted, or a duplicate is added or removed, and it is    *)
(* called again.                                                           *)
(***************************************************************************)
RECURSIVE Repeat(_, _)
Repeat(c, n) == IF n = 0 THEN <<>> ELSE <<c>> \o Repeat(c, n - 1)

\* Identifiers of the three kinds, and two whose lengths sort differently as
\* numbers (9 < 10) and as strings ("10" < "9").
IdPool ==
    {<<"1">>, <<"2">>, <<"1", "2">>, <<"a">>, <<"a", "1">>, <<"-">>, <<"1", "-">>,
     Repeat("7", 9), Repeat("7", 10)}

IdLists == UNION {[1..k -> IdPool] : k \in 0..MaxIds}

\* The caller's first list holds no identifier twice.
InitFormat ==
    /\ pc = "ready"
    /\ ids \in {l \in IdLists : Cardinality(Range(l)) = Len(l)}
    /\ label = NoLabel
    /\ base = NoLabel
    /\ AnalyzeIdle
    /\ AppIdle

Summarize ==
    /\ pc = "ready"
    /\ label' = get_identifier_type(ids)
    /\ base' = IF base = NoLabel THEN label' ELSE base
    /\ pc' = "summarized"
    /\ UNCHANGED <<ids, analyzeVars, appVars>>

\* The caller passes the same identifiers in another order.
Swap ==
    /\ pc = "summarized"
    /\ \E i \in 1..(Len(ids) - 1) :
        ids' = [ids EXCEPT ![i] = ids[i + 1], ![i + 1] = ids[i]]
    /\ pc' = "ready"
    /\ UNCHANGED <<label, base, analyzeVars, appVars>>

\* The caller passes one of the identifiers once more.
AddDuplicate ==
    /\ pc = "summarized"
    /\ Len(ids) < MaxIds
    /\ \E i \in 1..Len(ids) : ids' = Append(ids, ids[i])
    /\ pc' = "ready"
    /\ UNCHANGED <<label, base, analyzeVars, appVars>>

\* The caller leaves out one copy of an identifier that occurs twice.
DropDuplicate ==
    /\ pc = "summarized"
    /\ \E i \in 1..Len(ids) :
        /\ \E j \in 1..Len(ids) : j # i /\ ids[j] = ids[i]
        /\ ids' = Slice(ids, 1, i - 1) \o Slice(ids, i + 1, Len(ids))
    /\ pc' = "ready"
    /\ UNCHANGED <<label, base, analyzeVars, appVars>>

NextFormat == Summarize \/ Swap \/ AddDuplicate \/ DropDuplicate

SpecFormat == InitFormat /\ [][NextFormat]_vars

\* The label the claim gives one identifier.
ClaimedLabel(id) ==
    CASE \A i \in 1..Len(id) : IsDigit(id[i]) -> Decimal(Len(id)) \o DigitNumeric
      [] \A i \in 1..Len(id) : id[i] \in Digits \cup Letters ->
            Decimal(Len(id)) \o DigitAlphanumeric
      [] OTHER -> MixedFormats

\* The distinct claimed labels of a list in ascending order.
ClaimedLabels(identifiers) ==
    LET S == {ClaimedLabel(identifiers[i]) : i \in 1..Len(identifiers)}
        n == Cardinality(S)
    IN CHOOSE L \in [1..n -> S] :
            \A i \in 1..(n - 1) : StrLess(L[i], L[i + 1])

\* C8: the result is the distinct labels of the identifiers, sorted as strings
\* and joined with " | ", and it is the same after every permutation and
\* every added or removed duplicate.
C8_SortedDistinctLabels ==
    pc = "summarized" =>
        /\ label = join(Separator, ClaimedLabels(ids))
        /\ label = base

\* C8 witness: a list that got a duplicate (initial lists have none) and
\* whose labels are not met in ascending order was summarized again.
C8_Witness ==
    /\ pc = "summarized"
    /\ Len(ids) = 3
    /\ ids[1] = ids[3]
    /\ FormatOf(ids[1]) = MixedFormats
    /\ base = label
    /\ label = <<"1">> \o DigitAlphanumeric \o Separator \o MixedFormats

(***************************************************************************)
(* main, telanlys.py lines 63-131: the operations on the tables.           *)
(***************************************************************************)
MIN_OCCURRENCES == 3

OUTPUT_FILE == "testing_numbers_analysis.xlsx"

\* A bug of validate_traffic_file: "Sender ID" is not among the required.
required_mutant == <<"Client Name", "Destination Number", "Content">>

\* validate_traffic_file, line 20.
required == <<"Client Name", "Destination Number", "Content", "Sender ID">>

\* [col for col in required if col not in df.columns], lines 21-22.
validate_traffic_file(df) ==
    LET absent(col) == col \notin df.columns IN SelectSeq(required, absent)

\* validate_tags_file, line 26.
validate_tags_file(df) == "Tag values" \notin df.columns

\* str.lower() for the letters the model's numbers use.
LowerChar(c) ==
    CASE c = "A" -> "a" [] c = "B" -> "b" [] c = "D" -> "d" [] c = "I" -> "i"
      [] OTHER -> c

lower(s) == [i \in 1..Len(s) |-> LowerChar(s[i])]

\* A column as a list, df[col].
Column(df, col) == [i \in 1..Len(df.rows) |-> df.rows[i][col]]

\* Line 82: set(tags_df["Tag values"].astype(str).str.strip().str.lower()).
known_numbers_of(tags_df) ==
    {lower(strip(v)) : v \in Range(Column(tags_df, "Tag values"))}

\* Lines 84 and 90: traffic_df["Destination Number"].astype(str).str.lower().
\* The traffic numbers are lowered and not stripped.
lowered_numbers(traffic_df) ==
    [i \in 1..Len(traffic_df.rows) |-> lower(traffic_df.rows[i]["Destination Number"])]

CountOf(x, xs) == Cardinality({i \in 1..Len(xs) : xs[i] = x})

\* The distinct items of xs in the order they are first met.
RECURSIVE FirstMet(_, _, _)
FirstMet(xs, i, met) ==
    IF i > Len(xs) THEN met
    ELSE FirstMet(xs, i + 1, IF xs[i] \in Range(met) THEN met ELSE Append(met, xs[i]))

\* Series.value_counts(): the distinct values by descending count; values of
\* equal count keep the order in which they are first met.
RECURSIVE ByCountFrom(_, _)
ByCountFrom(items, xs) ==
    IF items = <<>> THEN <<>>
    ELSE LET top == CHOOSE k \in 1..Len(items) :
                        /\ \A j \in 1..Len(items) : CountOf(items[j], xs) <= CountOf(items[k], xs)
                        /\ \A j \in 1..(k - 1) : CountOf(items[j], xs) < CountOf(items[k], xs)
         IN <<items[top]>>
            \o ByCountFrom(Slice(items, 1, top - 1) \o Slice(items, top + 1, Len(items)), xs)

value_counts_index(xs) == ByCountFrom(FirstMet(xs, 1, <<>>), xs)

\* Lines 84-86: the numbers with at least MIN_OCCURRENCES rows that are not
\* known.
candidates_of(traffic_df, tags_df) ==
    LET numbers == lowered_numbers(traffic_df)
        known == known_numbers_of(tags_df)
        frequent(num) == CountOf(num, numbers) >= MIN_OCCURRENCES
        unknown(num) == num \notin known
    IN SelectSeq(SelectSeq(value_counts_index(numbers), frequent), unknown)

\* Line 90: the rows whose lowered number is the candidate.
records_of(traffic_df, number) ==
    LET mine(row) == lower(row["Destination Number"]) = number
    IN SelectSeq(traffic_df.rows, mine)

\* Lines 95-104: one detailed row per record of a classified number.
detailed_rows(records, pattern_data) ==
    [idx \in 1..Len(records) |->
        [ client |-> records[idx]["Client Name"],
          number |-> records[idx]["Destination Number"],
          content |-> records[idx]["Content"],
          sender |-> records[idx]["Sender ID"],
          occurrence_count |-> Len(records),
          message_pattern |-> pattern_data.pattern,
          identifier |-> pattern_data.identifiers[idx] ]]

\* Lines 90-104 for one candidate: the rows it adds to detailed_results.
classify_number(traffic_df, number) ==
    LET records == records_of(traffic_df, number)
        msgs == [i \in 1..Len(records) |-> records[i]["Content"]]
        pattern_data == analyze_messages(msgs)
    IN IF pattern_data # None /\ Len(pattern_data.identifiers) = Len(msgs)
       THEN detailed_rows(records, pattern_data)
       ELSE <<>>

MaxOf(S) == CHOOSE m \in S : \A o \in S : o <= m

CommaSpace == <<",", " ">>
SemicolonSpace == <<";", " ">>

\* Line 113: groupby('Destination Number') keys a detailed row by the number
\* as the traffic table holds it.
group_key(row) == row.number

\* Lines 113-120: one summary row per group key, keys ascending.
summary_of(detailed) ==
    LET keys == sorted({group_key(detailed[i]) : i \in 1..Len(detailed)}) IN
    [k \in 1..Len(keys) |->
        LET inGroup(row) == group_key(row) = keys[k]
            group == SelectSeq(detailed, inGroup)
            col(f) == {group[i][f] : i \in 1..Len(group)}
        IN [ number |-> keys[k],
             Total_Occurrences |-> MaxOf(col("occurrence_count")),
             Unique_Clients |-> Cardinality(col("client")),
             Clients |-> join(CommaSpace, sorted(col("client"))),
             Sender_IDs |-> join(CommaSpace, sorted(col("sender"))),
             Message_Patterns |-> join(SemicolonSpace, sorted(col("message_pattern"))),
             Identifier_Format |->
                get_identifier_type([i \in 1..Len(group) |-> group[i].identifier]) ]]

(***************************************************************************)
(* Messages are sequences of text pieces; a column name is one piece.      *)
(***************************************************************************)
Pieces(names) == [i \in 1..Len(names) |-> <<names[i]>>]

NewLine == <<"\n">>

\* Lines 74-79: the message of main's ValueError.
main_error_msg(missing_traffic, missing_tags) ==
    join(NewLine,
         (IF missing_traffic # <<>>
          THEN << <<"Missing columns in traffic file: ">>
                  \o join(<<", ">>, Pieces(missing_traffic)) >>
          ELSE <<>>)
         \o (IF missing_tags
             THEN << <<"Tags file missing '", "Tag values", "' column">> >>
             ELSE <<>>))

\* web_app.py lines 34-39: the message the page shows.
web_error_msg(traffic_issues, tags_issues) ==
    join(NewLine,
         (IF traffic_issues # <<>>
          THEN << <<"Missing in Traffic File: ">>
                  \o join(<<", ">>, Pieces(traffic_issues)) >>
          ELSE <<>>)
         \o (IF tags_issues
             THEN << <<"Missing '", "Tag values", "' column in Tags File">> >>
             ELSE <<>>))

Exception(type, msg) == [type |-> type, msg |-> msg]

\* pd.read_excel on a file it cannot read.
ReadError == Exception("ReadError", <<"cannot read the spreadsheet">>)

\* df[col] on a frame without the column.
KeyError(col) == Exception("KeyError", <<col>>)

\* Where control goes when main returns, and when it re-raises.
AfterReturn == IF entry = "web" THEN "web_download" ELSE "done"
AfterRaise == IF entry = "web" THEN "web_except" ELSE "done"

(***************************************************************************)
(* main, telanlys.py lines 63-131, step by step.                           *)
(***************************************************************************)
\* Lines 66-67: both files are read.
MainLoad ==
    /\ pc = "main_load"
    /\ IF traffic_file.readable /\ tags_file.readable
       THEN pc' = "main_validate" /\ UNCHANGED exc
       ELSE pc' = "main_except" /\ exc' = Some(ReadError)
    /\ UNCHANGED <<analyzeVars, formatVars, run, entry, traffic_file, tags_file,
                   bound, localVars, stdout, ui, download, saved, fs>>

\* Lines 70-79: the columns are validated.
MainValidate ==
    /\ pc = "main_validate"
    /\ LET missing_traffic == validate_traffic_file(traffic_file)
           missing_tags == validate_tags_file(tags_file)
       IN IF missing_traffic # <<>> \/ missing_tags
          THEN /\ exc' = Some(Exception("ValueError",
                                  main_error_msg(missing_traffic, missing_tags)))
               /\ pc' = "main_except"
          ELSE pc' = "main_candidates" /\ UNCHANGED exc
    /\ UNCHANGED <<analyzeVars, formatVars, run, entry, traffic_file, tags_file,
                   bound, localVars, stdout, ui, download, saved, fs>>

\* Lines 82-88: the candidates are computed and detailed_results is created.
MainCandidates ==
    /\ pc = "main_candidates"
    /\ IF "Tag values" \notin tags_file.columns
       THEN /\ exc' = Some(KeyError("Tag values"))
            /\ pc' = "main_except"
            /\ UNCHANGED localVars
       ELSE IF "Destination Number" \notin traffic_file.columns
       THEN /\ exc' = Some(KeyError("Destination Number"))
            /\ pc' = "main_except"
            /\ UNCHANGED localVars
       ELSE /\ candidates' = Some(candidates_of(traffic_file, tags_file))
            /\ todo' = candidates_of(traffic_file, tags_file)
            /\ detailed_results' = Some(<<>>)
            /\ pc' = "main_loop"
            /\ UNCHANGED <<summary_df, exc>>
    /\ UNCHANGED <<analyzeVars, formatVars, run, entry, traffic_file, tags_file,
                   bound, stdout, ui, download, saved, fs>>

\* Lines 89-104: one turn of the loop over the candidates.
MainClassifyNumber ==
    /\ pc = "main_loop"
    /\ todo # <<>>
    /\ LET absent == SelectSeq(<<"Content", "Client Name", "Sender ID">>,
                               LAMBDA col : col \notin traffic_file.columns)
       IN IF absent # <<>>
          THEN /\ exc' = Some(KeyError(absent[1]))
               /\ pc' = "main_except"
               /\ UNCHANGED localVars
          ELSE /\ detailed_results' =
                    Some(detailed_results[1] \o classify_number(traffic_file, Head(todo)))
               /\ todo' = Tail(todo)
               /\ UNCHANGED <<pc, exc, candidates, summary_df>>
    /\ UNCHANGED <<analyzeVars, formatVars, run, entry, traffic_file, tags_file,
                   bound, stdout, ui, download, saved, fs>>

\* Lines 106-127, after the loop: nothing found, or the summary is computed
\* and both tables are written to OUTPUT_FILE; main returns.
MainReport ==
    /\ pc = "main_loop"
    /\ todo = <<>>
    /\ IF detailed_results[1] = <<>>
       THEN /\ stdout' = Append(stdout, <<"No testing patterns found">>)
            /\ UNCHANGED <<summary_df, fs, saved>>
       ELSE /\ summary_df' = Some(summary_of(detailed_results[1]))
            /\ fs' = [fs EXCEPT !.output =
                        Some([Detailed |-> detailed_results[1],
                              Summary |-> summary_of(detailed_results[1])])]
            /\ saved' = TRUE
            /\ stdout' = Append(stdout,
                            <<"Analysis complete. Results saved to ", OUTPUT_FILE>>)
    /\ pc' = AfterReturn
    /\ UNCHANGED <<analyzeVars, formatVars, run, entry, traffic_file, tags_file,
                   bound, candidates, todo, detailed_results, exc, ui, download>>

\* Lines 129-131: the error is printed and raised again.
MainExcept ==
    /\ pc = "main_except"
    /\ stdout' = Append(stdout, <<"Error: ">> \o exc[1].msg)
    /\ pc' = AfterRaise
    /\ UNCHANGED <<analyzeVars, formatVars, run, entry, traffic_file, tags_file,
                   bound, localVars, exc, ui, download, saved, fs>>

(***************************************************************************)
(* The Analyze button handler, web_app.py lines 23-72.  Every click runs   *)
(* the script again, so no name of an earlier run is bound.                *)
(***************************************************************************)
Element(kind, text) == [kind |-> kind, text |-> text]

\* What a run starts from: nothing computed, printed, shown or bound.
StartRun(e, tf, gf) ==
    /\ run' = run + 1
    /\ entry' = e
    /\ traffic_file' = tf
    /\ tags_file' = gf
    /\ bound' = FALSE
    /\ candidates' = Nothing
    /\ todo' = <<>>
    /\ detailed_results' = Nothing
    /\ summary_df' = Nothing
    /\ exc' = Nothing
    /\ stdout' = <<>>
    /\ download' = Nothing
    /\ saved' = FALSE
    /\ UNCHANGED <<analyzeVars, formatVars, fs>>

Resting == pc \in {"idle", "done"}

\* Lines 27-28: both uploads are read.
WebRead ==
    /\ pc = "web_read"
    /\ IF traffic_file.readable /\ tags_file.readable
       THEN pc' = "web_validate" /\ UNCHANGED exc
       ELSE pc' = "web_except" /\ exc' = Some(ReadError)
    /\ UNCHANGED <<analyzeVars, formatVars, run, entry, traffic_file, tags_file,
                   bound, localVars, stdout, ui, download, saved, fs>>

\* Lines 30-40: the columns are validated before anything is saved.
WebValidate ==
    /\ pc = "web_validate"
    /\ LET traffic_issues == validate_traffic_file(traffic_file)
           tags_issues == "Tag values" \notin tags_file.columns
       IN IF traffic_issues # <<>> \/ tags_issues
          THEN /\ ui' = Append(ui, Element("error",
                                    web_error_msg(traffic_issues, tags_issues)))
               /\ exc' = Some(Exception("ValueError", <<"Invalid file format">>))
               /\ pc' = "web_except"
          ELSE pc' = "web_save" /\ UNCHANGED <<ui, exc>>
    /\ UNCHANGED <<analyzeVars, formatVars, run, entry, traffic_file, tags_file,
                   bound, localVars, stdout, download, saved, fs>>

\* Lines 43-52: the paths are assigned, the uploads are saved and main is
\* called on the saved files.
WebSaveTemp ==
    /\ pc = "web_save"
    /\ bound' = TRUE
    /\ fs' = [fs EXCEPT !.temp_traffic = TRUE, !.temp_tags = TRUE]
    /\ pc' = "main_load"
    /\ UNCHANGED <<analyzeVars, formatVars, run, entry, traffic_file, tags_file,
                   localVars, exc, stdout, ui, download, saved>>

\* Lines 55-61: the output file of the working directory is opened and
\* offered for download.
WebDownload ==
    /\ pc = "web_download"
    /\ IF fs.output = Nothing
       THEN /\ exc' = Some(Exception("FileNotFoundError", <<OUTPUT_FILE>>))
            /\ pc' = "web_except"
            /\ UNCHANGED <<ui, download>>
       ELSE /\ download' = fs.output
            /\ ui' = Append(ui, Element("download_button", <<"Download Report">>))
            /\ pc' = "web_finally"
            /\ UNCHANGED exc
    /\ UNCHANGED <<analyzeVars, formatVars, run, entry, traffic_file, tags_file,
                   bound, localVars, stdout, saved, fs>>

\* Lines 63-64: any exception of the try block is shown.
WebExcept ==
    /\ pc = "web_except"
    /\ ui' = Append(ui, Element("error", <<"Analysis failed: ">> \o exc[1].msg))
    /\ exc' = Nothing
    /\ pc' = "web_finally"
    /\ UNCHANGED <<analyzeVars, formatVars, run, entry, traffic_file, tags_file,
                   bound, localVars, stdout, download, saved, fs>>

\* Lines 65-70: os.path.exists(TRAFFIC_PATH) raises NameError when the path
\* was never assigned; otherwise both temporary files are removed.
WebFinally ==
    /\ pc = "web_finally"
    /\ IF bound
       THEN /\ fs' = [fs EXCEPT !.temp_traffic = FALSE, !.temp_tags = FALSE]
            /\ UNCHANGED exc
       ELSE /\ exc' = Some(Exception("NameError", <<"TRAFFIC_PATH">>))
            /\ UNCHANGED fs
    /\ pc' = "done"
    /\ UNCHANGED <<analyzeVars, formatVars, run, entry, traffic_file, tags_file,
                   bound, localVars, stdout, ui, download, saved>>

(***************************************************************************)
(* Inputs.                                                                 *)
(***************************************************************************)
TrafficColumns == {"Client Name", "Destination Number", "Content", "Sender ID"}

Row(client, number, content, sender) ==
    [col \in TrafficColumns |->
        CASE col = "Client Name" -> client
          [] col = "Destination Number" -> number
          [] col = "Content" -> content
          [] col = "Sender ID" -> sender]

TagRow(value) == [col \in {"Tag values"} |-> value]

\* The rows of a table that lacks some columns.
Restrict(rows, cols) == [i \in 1..Len(rows) |-> [col \in cols |-> rows[i][col]]]

\* Three traffic tables: empty, one number with one template, one number
\* whose messages share no template.
SampleTables ==
    LET r(content) == Row(<<"c">>, <<"5">>, content, <<"s">>) IN
    { <<>>,
      <<r(<<"a", "1">>), r(<<"a", "2">>), r(<<"a", "1">>)>>,
      <<r(<<"a", "1">>), r(<<"b">>), r(<<"a", "2">>)>> }

Uploads ==
    {Unreadable}
    \cup {Frame(cols, Restrict(t, cols)) : cols \in SUBSET TrafficColumns, t \in SampleTables}

TagUploads ==
    { Unreadable,
      Frame({"Other"}, <<>>),
      Frame({"Tag values"}, <<>>),
      Frame({"Tag values"}, <<TagRow(<<"5">>)>>) }

\* The button is pressed with both files uploaded (line 24).
ClickAnalyze ==
    /\ Resting
    /\ run < MaxRuns
    /\ \E tf \in Uploads, gf \in TagUploads : StartRun("web", tf, gf)
    /\ ui' = <<>>
    /\ pc' = "web_read"

\* The button is pressed with an upload missing (lines 71-72).
ClickWithoutFiles ==
    /\ Resting
    /\ run < MaxRuns
    /\ StartRun("web_incomplete", Unreadable, Unreadable)
    /\ ui' = <<Element("warning", <<"Please upload both files first!">>)>>
    /\ pc' = "done"

\* python telanlys.py: main() on the files of the working directory (line 134).
InvokeMain ==
    /\ Resting
    /\ run < MaxRuns
    /\ \E tf \in Uploads, gf \in TagUploads : StartRun("cli", tf, gf)
    /\ ui' = <<>>
    /\ pc' = "main_load"

Init ==
    /\ pc = "idle"
    /\ AppIdle
    /\ AnalyzeIdle
    /\ FormatIdle

Next ==
    \/ ClickAnalyze
    \/ ClickWithoutFiles
    \/ InvokeMain
    \/ WebRead
    \/ WebValidate
    \/ WebSaveTemp
    \/ MainLoad
    \/ MainValidate
    \/ MainCandidates
    \/ MainClassifyNumber
    \/ MainReport
    \/ MainExcept
    \/ WebDownload
    \/ WebExcept
    \/ WebFinally

Spec == Init /\ [][Next]_vars

(***************************************************************************)
(* One call of main on larger tables.                                      *)
(***************************************************************************)
RowPool ==
    {Row(<<"c">>, number, content, <<"s">>) :
        number \in {<<"5">>, <<" ", "5">>, <<"A">>, <<"a">>},
        content \in {<<"a", "1">>, <<"a", "2">>, <<"b">>}}

TrafficTables == UNION {[1..k -> RowPool] : k \in 0..MaxRows}

TagTables ==
    { Unreadable, Frame({"Other"}, <<>>), Frame({"Tag values"}, <<>>) }
    \cup {Frame({"Tag values"}, <<TagRow(value)>>) : value \in {<<"5", " ">>, <<"A">>}}

InitMain ==
    /\ pc = "main_load"
    /\ run = 1
    /\ entry = "cli"
    /\ traffic_file \in {Frame(TrafficColumns, t) : t \in TrafficTables}
    /\ tags_file \in TagTables
    /\ bound = FALSE
    /\ candidates = Nothing
    /\ todo = <<>>
    /\ detailed_results = Nothing
    /\ summary_df = Nothing
    /\ exc = Nothing
    /\ stdout = <<>>
    /\ ui = <<>>
    /\ download = Nothing
    /\ saved = FALSE
    /\ fs = EmptyDir
    /\ AnalyzeIdle
    /\ FormatIdle

NextMain ==
    \/ MainLoad
    \/ MainValidate
    \/ MainCandidates
    \/ MainClassifyNumber
    \/ MainReport
    \/ MainExcept

SpecMain == InitMain /\ [][NextMain]_vars

(***************************************************************************)
(* Claims about main and the handler.                                      *)
(***************************************************************************)
\* A number as the claims compare it: without case and outer whitespace.
Normalized(number) == lower(Trimmed(number))

\* The tables main wrote in this run.
Written == fs.output[1]

\* C4: every number in the written tables has at least MIN_OCCURRENCES
\* traffic rows and is no registry entry, numbers being compared without
\* regard to case and outer whitespace.
C4_KnownNumbersExcluded ==
    saved =>
        LET shown == {Written.Detailed[i].number : i \in 1..Len(Written.Detailed)}
                     \cup {Written.Summary[i].number : i \in 1..Len(Written.Summary)}
            registry == {Normalized(tags_file.rows[i]["Tag values"]) :
                            i \in 1..Len(tags_file.rows)}
            rowsOf(number) ==
                {i \in 1..Len(traffic_file.rows) :
                    Normalized(traffic_file.rows[i]["Destination Number"])
                        = Normalized(number)}
        IN \A number \in shown :
            /\ Cardinality(rowsOf(number)) >= MIN_OCCURRENCES
            /\ Normalized(number) \notin registry

\* The run has ended with valid inputs and no candidate classified.
EmptyRun == pc = "done" /\ detailed_results = Some(<<>>)

\* C5: a run in which no candidate survives reports "no patterns found",
\* writes no result file and offers no report for download.
C5_EmptyRunOffersNothing ==
    EmptyRun =>
        /\ <<"No testing patterns found">> \in Range(stdout)
        /\ ~saved
        /\ download = Nothing
        /\ \A i \in 1..Len(ui) : ui[i].kind # "download_button"

\* The columns the claim requires and this run's files lack.
MissingTraffic ==
    {"Client Name", "Destination Number", "Content", "Sender ID"} \ traffic_file.columns

MissingTags == {"Tag values"} \ tags_file.columns

ColumnMissing ==
    /\ run > 0
    /\ traffic_file.readable
    /\ tags_file.readable
    /\ MissingTraffic \cup MissingTags # {}

\* The text names every missing column.
NamesMissing(text) == MissingTraffic \cup MissingTags \subseteq Range(text)

\* C6: with a required column missing, no candidate is computed, nothing is
\* classified, written or offered, and the error that reaches the caller
\* (the exception of main, the error box of the page) names every missing
\* column.
C6_MissingColumnStopsRun ==
    ColumnMissing =>
        /\ candidates = Nothing
        /\ detailed_results = Nothing
        /\ summary_df = Nothing
        /\ ~saved
        /\ download = Nothing
        /\ (pc = "done" /\ entry = "cli") =>
                /\ exc # Nothing
                /\ NamesMissing(exc[1].msg)
                /\ \E i \in 1..Len(stdout) : NamesMissing(stdout[i])
        /\ (pc = "done" /\ entry = "web") =>
                \E i \in 1..Len(ui) : ui[i].kind = "error" /\ NamesMissing(ui[i].text)

\* C6 witness: the handler has ended on uploads that lack two traffic columns
\* and the registry column, in a directory that holds an earlier result.
C6_Witness ==
    /\ pc = "done"
    /\ entry = "web"
    /\ ColumnMissing
    /\ Cardinality(MissingTraffic) = 2
    /\ MissingTags # {}
    /\ fs.output # Nothing
    /\ \E i \in 1..Len(ui) : ui[i].kind = "error" /\ NamesMissing(ui[i].text)

\* C7: the summary has one row per qualifying number (numbers taken in lower
\* case), and the row's Total_Occurrences is the number of traffic rows of
\* that number and the number of detailed rows written for it.
C7_OneSummaryRowPerNumber ==
    saved =>
        LET qualifying == {lower(Written.Detailed[i].number) :
                                i \in 1..Len(Written.Detailed)}
            trafficRows(key) ==
                {i \in 1..Len(traffic_file.rows) :
                    lower(traffic_file.rows[i]["Destination Number"]) = lower(key)}
            detailedRows(key) ==
                {i \in 1..Len(Written.Detailed) : Written.Detailed[i].number = key}
        IN /\ Len(Written.Summary) = Cardinality(qualifying)
           /\ \A k \in 1..Len(Written.Summary) :
                /\ Written.Summary[k].Total_Occurrences
                        = Cardinality(trafficRows(Written.Summary[k].number))
                /\ Written.Summary[k].Total_Occurrences
                        = Cardinality(detailedRows(Written.Summary[k].number))

\* C10: when the handler has ended after a press with both files uploaded,
\* the cleanup has raised nothing and no temporary file exists.
C10_CleanupCompletes ==
    (pc = "done" /\ entry = "web") =>
        /\ exc = Nothing
        /\ ~fs.temp_traffic
        /\ ~fs.temp_tags

====
